---------------------------- MODULE Spec2Model ----------------------------
(***************************************************************************)
(* A model of pencil.js: Sprite animation and painting, scene              *)
(* serialization (toJSON / from), Text font loading and measurement,       *)
(* the Select widget and the Navigation module.                            *)
(*                                                                         *)
(* Every object of the program is one variable holding a record of the     *)
(* object's fields.  A method is an operator from the object before the    *)
(* call to the object after it; an action applies one public operation.    *)
(***************************************************************************)
EXTENDS Integers, Sequences, FiniteSets, TLC

VARIABLES
    sprite,     \* the Sprite under animation, with what its last render did
    texts,      \* the Text components, each with the promises of its font load
    rejections, \* the Texts whose promise was rejected with no handler on it
    select,     \* the Select input
    pointer,    \* the scene's pointer: what it hovers, the events of its last move
    nav,        \* the Navigation module: its scenes and the current one
    measurer,   \* measureText's closure (sandbox, cache), the fonts, the last call
    tree,       \* a component tree and the copy its last serialization gave
    color,      \* a Color, with the last call made on it
    rectangle   \* a Rectangle, with the last call of getOrigin

vars == <<sprite, texts, rejections, select, pointer, nav, measurer, tree, color, rectangle>>

-----------------------------------------------------------------------------
(* Numbers.  A frame position is a multiple of 1/FrameUnit, kept as the    *)
(* integer count of units, so that fractional speeds are representable.    *)

FrameUnit == 2

\* The value JavaScript gives x % 0: no number at all.  It stands far
\* outside every frame position and every sum of a position and a speed.
NaN == 0 - 1000

\* A remainder that keeps the sign of the dividend, as the % of JavaScript.
remainder(x, n) ==
    IF n = 0 \/ x = NaN THEN NaN
    ELSE IF x < 0 THEN 0 - ((0 - x) % n) ELSE x % n

\* @pencil.js/math modulo: the remainder with the sign of the divisor.
modulo(x, n) == IF n = 0 \/ x = NaN THEN NaN ELSE x % n

\* Math.floor of a position given in units, as a whole frame number.
floor(x) == IF x = NaN THEN NaN ELSE x \div FrameUnit

-----------------------------------------------------------------------------
(* The sprite-sheet: the json.frames object, its keys in insertion order.  *)

Box(x, y, w, h) == [x |-> x, y |-> y, w |-> w, h |-> h]

SheetKeys == <<"run_0", "run_1", "idle_0">>

SheetFrames ==
    [k \in {"run_0", "run_1", "idle_0"} |->
        CASE k = "run_0"  -> [frame |-> Box(0, 0, 10, 20),  spriteSourceSize |-> Box(1, 1, 11, 21)]
          [] k = "run_1"  -> [frame |-> Box(10, 0, 12, 22), spriteSourceSize |-> Box(2, 2, 13, 23)]
          [] k = "idle_0" -> [frame |-> Box(22, 0, 14, 24), spriteSourceSize |-> Box(3, 3, 15, 25)]]

\* picomatch(pattern)(name) for the patterns used here: a literal, "*" and
\* a literal prefix followed by "*".
Glob(pattern, name) ==
    CASE pattern = "*"      -> TRUE
      [] pattern = "run_*"  -> name \in {"run_0", "run_1"}
      [] pattern = "idle_*" -> name = "idle_0"
      [] OTHER              -> pattern = name

\* A selector is a string, a RegExp or function (given by the names it
\* accepts) or any other value.
Selectors ==
    [kind : {"string"}, value : {"*", "run_*", "run_1", "walk_*", "idle"}]
    \cup [kind : {"regexp", "function"}, accepts : SUBSET {"run_0", "run_1", "idle_0"}]
    \cup {[kind |-> "other"]}

\* The filter built from the selector.
Filter(selector, name) ==
    CASE selector.kind = "function" -> name \in selector.accepts
      [] selector.kind = "string"   -> selector.value = name \/ Glob(selector.value, name)
      [] selector.kind = "regexp"   -> name \in selector.accepts
      [] OTHER                      -> FALSE

RECURSIVE SelectSeq2(_, _)
\* Array.prototype.filter over the keys, then map to the frame data.
SelectSeq2(keys, selector) ==
    IF keys = <<>> THEN <<>>
    ELSE IF Filter(selector, Head(keys))
         THEN <<SheetFrames[Head(keys)]>> \o SelectSeq2(Tail(keys), selector)
         ELSE SelectSeq2(Tail(keys), selector)

-----------------------------------------------------------------------------
(* Sprite                                                                  *)

Speeds == {0 - FrameUnit, 1, FrameUnit, FrameUnit + 1}

\* The end events counted before the renders stop.
MaxEnds == 2

NoDraw == [done |-> FALSE]

\* new Sprite(position, url, frames, options)
Sprite_new(frames, speed, loop) ==
    [made |-> TRUE, frames |-> frames, frame |-> 0, isPaused |-> FALSE,
     isLoaded |-> FALSE, width |-> 0, height |-> 0,
     speed |-> speed, loop |-> loop, shown |-> TRUE, attached |-> FALSE,
     threw |-> FALSE, calls |-> 0, log |-> <<>>, drawn |-> NoDraw, ends |-> 0]

NoSprite ==
    [made |-> FALSE, frames |-> <<>>, frame |-> 0, isPaused |-> FALSE,
     isLoaded |-> FALSE, width |-> 0, height |-> 0,
     speed |-> FrameUnit, loop |-> TRUE, shown |-> TRUE, attached |-> FALSE,
     threw |-> FALSE, calls |-> 0, log |-> <<>>, drawn |-> NoDraw, ends |-> 0]

\* frames[Math.floor(frame)] is undefined: destructuring it throws TypeError.
NoFrameAt(s) == floor(s.frame) = NaN \/ floor(s.frame) >= Len(s.frames)

FrameAt(s) == s.frames[floor(s.frame) + 1]

Sprite_setFrame(s, f) == [s EXCEPT !.frame = modulo(f, Len(s.frames) * FrameUnit)]

\* A play that starts the animation over.
Sprite_playFromStart(s, args) ==
    [s EXCEPT !.isPaused = FALSE, !.frame = 0,
              !.speed = IF args = <<>> THEN @ ELSE args[1]]

\* play(speed): args is the argument list, empty when speed is not given.
Sprite_play(s, args) ==
    [s EXCEPT !.isPaused = FALSE,
              !.speed = IF args = <<>> THEN @ ELSE args[1]]

Sprite_pause(s) == [s EXCEPT !.isPaused = TRUE]

\* ctx.drawImage(file, frame.x, frame.y, frame.w, frame.h,
\*               spriteSourceSize.x, spriteSourceSize.y, width, height)
Sprite_draw(s) ==
    IF NoFrameAt(s) THEN [s EXCEPT !.threw = TRUE]
    ELSE [s EXCEPT !.log = Append(@, "draw"),
                   !.drawn = [done |-> TRUE, index |-> floor(s.frame),
                              source |-> FrameAt(s).frame,
                              x |-> FrameAt(s).spriteSourceSize.x,
                              y |-> FrameAt(s).spriteSourceSize.y,
                              width |-> s.width, height |-> s.height]]

\* Image.makePath: a loaded image is drawn, an image still loading is not.
Image_makePath(s) == IF s.isLoaded THEN Sprite_draw(s) ELSE s

\* this.fire(new BaseEvent(name, this)); ends counts the end events fired
\* since the sprite was made.
Fire(s, name) ==
    [s EXCEPT !.log = Append(@, name),
              !.ends = IF name = "sprite-end" THEN @ + 1 ELSE @]

\* A makePath that advances twice in one call.
Sprite_advanceTwice(s) ==
    IF ~s.isPaused /\ (s.loop \/ s.frame < (Len(s.frames) - 1) * FrameUnit)
    THEN Sprite_setFrame(s, s.frame + s.speed + s.speed)
    ELSE s

\* The frame advance of makePath.
Sprite_advance(s) ==
    IF ~s.isPaused /\ (s.loop \/ s.frame < (Len(s.frames) - 1) * FrameUnit)
    THEN Sprite_setFrame(s, s.frame + s.speed)
    ELSE s

\* The events of makePath, frameNumber being the frame before the advance.
Sprite_events(s, frameNumber) ==
    IF floor(s.frame) # frameNumber
    THEN IF ~s.loop /\ floor(s.frame) = Len(s.frames) - 1
         THEN Fire(Fire(s, "sprite-frame"), "sprite-end")
         ELSE Fire(s, "sprite-frame")
    ELSE s

Sprite_step(s) ==
    IF s.isLoaded /\ ~s.threw
    THEN Sprite_events(Sprite_advance(s), floor(s.frame))
    ELSE s

Sprite_size(s) ==
    [s EXCEPT !.width = FrameAt(s).spriteSourceSize.w,
              !.height = FrameAt(s).spriteSourceSize.h]

\* A makePath that advances the frame before it paints.
Sprite_makePathStepFirst(s) ==
    IF NoFrameAt(s) THEN [s EXCEPT !.threw = TRUE, !.calls = @ + 1]
    ELSE Image_makePath(Sprite_step(Sprite_size([s EXCEPT !.calls = @ + 1])))

Sprite_makePath(s) ==
    IF NoFrameAt(s) THEN [s EXCEPT !.threw = TRUE, !.calls = @ + 1]
    ELSE Sprite_step(Image_makePath(Sprite_size([s EXCEPT !.calls = @ + 1])))

\* Spritesheet.extract(position, selector = "*", options)
Spritesheet_extract(selector, speed, loop) ==
    Sprite_new(SelectSeq2(SheetKeys, selector), speed, loop)

\* One frame of the scene's render loop reaching the sprite: a component
\* that is hidden or not in the scene's tree is skipped.
Render(s) ==
    LET t == [s EXCEPT !.calls = 0, !.log = <<>>, !.drawn = NoDraw, !.threw = FALSE]
    IN  IF t.attached /\ t.shown THEN Sprite_makePath(t) ELSE t

-----------------------------------------------------------------------------
(* Sprite: the operations                                                  *)

SpriteInit == sprite = NoSprite

SpriteOthers == <<texts, rejections, select, pointer, nav, measurer, tree, color, rectangle>>

SpriteExtract ==
    /\ UNCHANGED SpriteOthers
    /\ ~sprite.made
    /\ \E selector \in Selectors, speed \in Speeds, loop \in BOOLEAN :
          sprite' = Spritesheet_extract(selector, speed, loop)

SpriteLoaded ==
    /\ UNCHANGED SpriteOthers
    /\ sprite.made /\ ~sprite.isLoaded
    /\ sprite' = [sprite EXCEPT !.isLoaded = TRUE]

SpriteAttach ==
    /\ UNCHANGED SpriteOthers
    /\ sprite.made /\ ~sprite.attached
    /\ sprite' = [sprite EXCEPT !.attached = TRUE]

SpriteDetach ==
    /\ UNCHANGED SpriteOthers
    /\ sprite.made /\ sprite.attached
    /\ sprite' = [sprite EXCEPT !.attached = FALSE]

SpriteShow ==
    /\ UNCHANGED SpriteOthers
    /\ sprite.made /\ ~sprite.shown
    /\ sprite' = [sprite EXCEPT !.shown = TRUE]

SpriteHide ==
    /\ UNCHANGED SpriteOthers
    /\ sprite.made /\ sprite.shown
    /\ sprite' = [sprite EXCEPT !.shown = FALSE]

SpritePlay ==
    /\ UNCHANGED SpriteOthers
    /\ sprite.made
    /\ \E args \in {<<>>} \cup {<<speed>> : speed \in Speeds} :
          sprite' = Sprite_play(sprite, args)

SpritePause ==
    /\ UNCHANGED SpriteOthers
    /\ sprite.made
    /\ sprite' = Sprite_pause(sprite)

SpriteSetFrame ==
    /\ UNCHANGED SpriteOthers
    /\ sprite.made
    /\ \E f \in (0 - FrameUnit) .. (Len(SheetKeys) + 1) * FrameUnit :
          sprite' = Sprite_setFrame(sprite, f)

SpriteTick ==
    /\ UNCHANGED SpriteOthers
    /\ sprite.made
    /\ sprite.ends < MaxEnds
    /\ sprite' = Render(sprite)


-----------------------------------------------------------------------------
(* Text: the constructor and the font load                                 *)

MaxTexts == 2

TextIds == 1 .. MaxTexts

Fonts == {"sans-serif", "serif", "//cdn/a.woff", "https://x/b.ttf"}

\* /^(\w+:)?\/\//.test(font)
IsURL(font) == font \in {"//cdn/a.woff", "https://x/b.ttf"}

\* url.replace(/\W/g, "-")
FontName(url) ==
    CASE url = "//cdn/a.woff"    -> "--cdn-a-woff"
      [] url = "https://x/b.ttf" -> "https---x-b-ttf"
      [] OTHER                   -> url

\* A promise is pending, fulfilled or rejected; "none" is no promise.
\* load is fontFace.load(), named is load.then(() => name) and done is
\* named.then(name => { options.font = name; fire(ready) }).
\* given is the font the constructor was called with, ready counts the
\* ready events fired and heard lists options.font as the listeners of
\* each ready event found it.
NoText ==
    [made |-> FALSE, font |-> "sans-serif", ready |-> 0, failed |-> 0,
     load |-> "none", named |-> "none", done |-> "none",
     given |-> "sans-serif", heard |-> <<>>]

\* this.fire(isLoadedEvent)
Text_fireReady(t) == [t EXCEPT !.ready = @ + 1, !.heard = Append(@, t.font)]

\* Text.load(url): the font face is created and its load is requested.
Text_load(t) == [t EXCEPT !.load = "pending", !.named = "pending"]

\* new Text(position, text, options)
Text_new(font) ==
    LET t == [NoText EXCEPT !.made = TRUE, !.font = font, !.given = font]
    IN  IF IsURL(font)
        THEN [Text_load(t) EXCEPT !.done = "pending"]
        ELSE Text_fireReady(t)

\* The reaction of load.then(() => name): no rejection handler is given, so
\* a rejection passes on to the promise then() returned.
Text_named(t) ==
    [t EXCEPT !.named = IF t.load = "fulfilled" THEN "fulfilled" ELSE "rejected"]

\* A reaction that fires ready before it writes options.font.
Text_doneFiresFirst(t) ==
    IF t.named = "fulfilled"
    THEN [Text_fireReady(t) EXCEPT !.font = FontName(t.font), !.done = "fulfilled"]
    ELSE [t EXCEPT !.done = "rejected"]

\* The reaction of the constructor's then(): again with no rejection handler.
Text_done(t) ==
    IF t.named = "fulfilled"
    THEN [Text_fireReady([t EXCEPT !.font = FontName(t.font)])
              EXCEPT !.done = "fulfilled"]
    ELSE [t EXCEPT !.done = "rejected"]

TextInit ==
    /\ texts = [id \in TextIds |-> NoText]
    /\ rejections = {}

TextOthers == <<sprite, select, pointer, nav, measurer, tree, color, rectangle>>

TextNew ==
    /\ UNCHANGED TextOthers
    /\ \E id \in TextIds, font \in Fonts :
          /\ ~texts[id].made
          /\ texts' = [texts EXCEPT ![id] = Text_new(font)]
          /\ UNCHANGED rejections

\* The browser settles fontFace.load().
FontLoadSettles ==
    /\ UNCHANGED TextOthers
    /\ \E id \in TextIds, outcome \in {"fulfilled", "rejected"} :
          /\ texts[id].load = "pending"
          /\ texts' = [texts EXCEPT ![id].load = outcome]
          /\ UNCHANGED rejections

\* The microtask of the first then().
TextNamedReaction ==
    /\ UNCHANGED TextOthers
    /\ \E id \in TextIds :
          /\ texts[id].load \in {"fulfilled", "rejected"}
          /\ texts[id].named = "pending"
          /\ texts' = [texts EXCEPT ![id] = Text_named(@)]
          /\ UNCHANGED rejections

\* The microtask of the second then(); a promise rejected with no handler
\* attached is reported by the host as an unhandled rejection.
TextDoneReaction ==
    /\ UNCHANGED TextOthers
    /\ \E id \in TextIds :
          /\ texts[id].named \in {"fulfilled", "rejected"}
          /\ texts[id].done = "pending"
          /\ texts' = [texts EXCEPT ![id] = Text_done(@)]
          /\ rejections' = IF Text_done(texts[id]).done = "rejected"
                            THEN rejections \cup {id}
                            ELSE rejections

TextNext ==
    \/ TextNew
    \/ FontLoadSettles
    \/ TextNamedReaction
    \/ TextDoneReaction

-----------------------------------------------------------------------------
(* Select                                                                  *)

\* A constrain that wraps around instead of stopping at the bound.
constrainWraps(value, min, max) == min + modulo(value - min, max - min + 1)

\* @pencil.js/math constrain: value kept between min and max.
constrain(value, min, max) ==
    IF value < min THEN min ELSE IF value > max THEN max ELSE value

\* The change events counted before the count stops.
MaxChanges == 2

OptionLists == {<<>>, <<"a">>, <<"a", "b">>, <<"b", "", "a">>}

\* this.options.background and this.options.hover, the two row fills.
BackgroundFill == "background"

HoverFill == "hover"

\* No Select yet.  given is the options list the constructor was last
\* called with; value is options.value; assigned holds the last value the
\* value setter was called with, if any.
NoSelect ==
    [made |-> FALSE, threw |-> FALSE, optionsList |-> <<>>, selected |-> 0,
     display |-> "", shown |-> FALSE, fills |-> <<>>, changes |-> 0, value |-> 0,
     given |-> <<>>, assigned |-> <<>>]

\* A constructor that throws on an empty list only after it built its parts.
Select_newThrowsLate(optionsList, value) ==
    [made |-> Len(optionsList) > 0, threw |-> Len(optionsList) = 0,
     optionsList |-> optionsList, selected |-> 0, display |-> "", shown |-> FALSE,
     fills |-> [i \in 1 .. Len(optionsList) |-> BackgroundFill],
     changes |-> 0, value |-> value, given |-> optionsList,
     assigned |-> <<>>]

\* new Select(position, optionsList, options), options.value being value.
Select_new(optionsList, value) ==
    IF Len(optionsList) = 0
    THEN [NoSelect EXCEPT !.threw = TRUE, !.given = optionsList]
    ELSE [made |-> TRUE, threw |-> FALSE, optionsList |-> optionsList,
          selected |-> 0, display |-> "", shown |-> FALSE,
          fills |-> [i \in 1 .. Len(optionsList) |-> BackgroundFill],
          changes |-> 0, value |-> value, given |-> optionsList,
     assigned |-> <<>>]

\* set value (value); rows count from 0 as in the code.
Select_value(sel, value) ==
    LET k == constrain(value, 0, Len(sel.optionsList) - 1)
    IN  [sel EXCEPT !.selected = k,
                    !.display = sel.optionsList[k + 1],
                    !.shown = FALSE,
                    !.assigned = <<value>>]

\* click (): the list of options opens.
Select_click(sel) == [sel EXCEPT !.shown = TRUE]

\* The hover listener of row index.
RowOnHover(sel, index) == [sel EXCEPT !.fills[index + 1] = HoverFill]

\* A leave listener that does not restore the fill.
RowOnLeaveKeeps(sel, index) == sel

\* The leave listener of row index.
RowOnLeave(sel, index) == [sel EXCEPT !.fills[index + 1] = BackgroundFill]

\* The click listener of row index.
RowOnClick(sel, index) ==
    [Select_value(sel, index) EXCEPT !.changes = @ + 1]

\* What the pointer is over: nothing, the select's own box or a row.
Nowhere == [kind |-> "none"]

OnSelect == [kind |-> "select"]

OnRow(index) == [kind |-> "row", index |-> index]

\* The components a pointer move can hit: rows only while the list is shown.
Targets(sel) ==
    {Nowhere, OnSelect}
    \cup (IF sel.shown THEN {OnRow(i) : i \in 0 .. Len(sel.optionsList) - 1} ELSE {})

\* The scene's mousemove: when the component under the pointer changes,
\* leave is fired on the old one and then hover on the new one.
Scene_leave(sel, from) ==
    IF from.kind = "row" THEN RowOnLeave(sel, from.index) ELSE sel

Scene_hover(sel, to) ==
    IF to.kind = "row" THEN RowOnHover(sel, to.index) ELSE sel

Scene_events(from, to) ==
    (IF from.kind = "none" THEN <<>> ELSE <<[name |-> "leave", target |-> from]>>)
    \o (IF to.kind = "none" THEN <<>> ELSE <<[name |-> "hover", target |-> to]>>)

SelectInit ==
    /\ select = NoSelect
    /\ pointer = [hovered |-> Nowhere, events |-> <<>>]

SelectOthers == <<sprite, texts, rejections, nav, measurer, tree, color, rectangle>>

SelectNew ==
    /\ UNCHANGED SelectOthers
    /\ ~select.made
    /\ \E optionsList \in OptionLists, value \in 0 .. 2 :
          select' = Select_new(optionsList, value)
    /\ UNCHANGED pointer

SelectSetValue ==
    /\ UNCHANGED SelectOthers
    /\ select.made
    /\ \E value \in (0 - 1) .. 3 : select' = Select_value(select, value)
    /\ UNCHANGED pointer

PointerMove ==
    /\ UNCHANGED SelectOthers
    /\ select.made
    /\ \E to \in Targets(select) :
          /\ to # pointer.hovered
          /\ select' = Scene_hover(Scene_leave(select, pointer.hovered), to)
          /\ pointer' = [hovered |-> to, events |-> Scene_events(pointer.hovered, to)]

\* A click on the select's box opens the list.
PointerClickSelect ==
    /\ UNCHANGED SelectOthers
    /\ select.made
    /\ pointer.hovered = OnSelect
    /\ select' = Select_click(select)
    /\ UNCHANGED pointer

\* A click on the hovered row of the open list.
PointerClickRow ==
    /\ UNCHANGED SelectOthers
    /\ select.made /\ select.shown
    /\ select.changes < MaxChanges
    /\ pointer.hovered.kind = "row"
    /\ select' = RowOnClick(select, pointer.hovered.index)
    /\ UNCHANGED pointer

-----------------------------------------------------------------------------
(* Navigation                                                              *)

\* The scenes prepareScenes builds, in the order of the builders' keys, and
\* the scenes made with new Scene() outside of it.
Prepared == <<"home", "other", "about">>

PreparedNames == {Prepared[i] : i \in 1 .. Len(Prepared)}

Outsiders == {"outsider", "stranger", "guest"}

SceneNames == PreparedNames \cup Outsiders

NavStart ==
    [exists |-> [n \in SceneNames |-> FALSE],
     shown |-> [n \in SceneNames |-> FALSE],
     current |-> "none",
     last |-> [op |-> "none", scene |-> "none"]]

\* A displayScene that only knows the prepared scenes.
Navigation_displayPreparedOnly(n, scene) ==
    IF scene \in PreparedNames
    THEN [n EXCEPT !.shown = [x \in SceneNames |-> x = scene], !.current = scene]
    ELSE n

\* A displayScene that leaves the scene it replaces shown.
Navigation_displayOverOld(n, scene) ==
    [n EXCEPT !.shown[scene] = TRUE, !.current = scene]

\* displayScene(scene): the current scene is hidden, scene is shown and
\* becomes the current scene.
Navigation_displayScene(n, scene) ==
    [n EXCEPT !.shown = [x \in SceneNames |->
                            IF x = scene THEN TRUE
                            ELSE IF x = n.current THEN FALSE
                            ELSE n.shown[x]],
              !.current = scene]

\* prepareScenes(builders): every scene is built hidden, the first is displayed.
Navigation_prepareScenes(n) ==
    Navigation_displayScene(
        [n EXCEPT !.exists = [x \in SceneNames |-> n.exists[x] \/ x \in PreparedNames]],
        Prepared[1])

\* new Scene(): a scene of its own, shown as every component is by default.
Scene_new(n, scene) == [n EXCEPT !.exists[scene] = TRUE, !.shown[scene] = TRUE]

\* The current scene fires Scene.events.change with the name of a scene.
Navigation_change(n, name) == Navigation_displayScene(n, name)

Did(n, op, scene) == [n EXCEPT !.last = [op |-> op, scene |-> scene]]

NavInit == nav = NavStart

NavOthers == <<sprite, texts, rejections, select, pointer, measurer, tree, color, rectangle>>

NavPrepareScenes ==
    /\ UNCHANGED NavOthers
    /\ ~nav.exists[Prepared[1]]
    /\ nav' = Did(Navigation_prepareScenes(nav), "prepareScenes", Prepared[1])

NavNewScene ==
    /\ UNCHANGED NavOthers
    /\ \E scene \in Outsiders :
          /\ ~nav.exists[scene]
          /\ nav' = Did(Scene_new(nav, scene), "new", scene)

NavDisplayScene ==
    /\ UNCHANGED NavOthers
    /\ \E scene \in SceneNames :
          /\ nav.exists[scene]
          /\ nav' = Did(Navigation_displayScene(nav, scene), "displayScene", scene)

NavChange ==
    /\ UNCHANGED NavOthers
    /\ nav.current # "none"
    /\ \E name \in PreparedNames :
          /\ nav.exists[name]
          /\ nav' = Did(Navigation_change(nav, name), "change", name)

NavNext ==
    \/ NavPrepareScenes
    \/ NavNewScene
    \/ NavDisplayScene
    \/ NavChange

-----------------------------------------------------------------------------
(* JavaScript values, objects and strings                                  *)

Num(n) == [t |-> "number", v |-> n]

Str(s) == [t |-> "string", v |-> s]

Bool(b) == [t |-> "boolean", v |-> b]

Undefined == [t |-> "undefined"]

NotANumber == [t |-> "NaN"]

\* a * b: the product of two numbers; undefined makes it NaN.
Times(a, b) ==
    IF a.t = "number" /\ b.t = "number" THEN Num(a.v * b.v) ELSE NotANumber

\* An object: its own keys in insertion order and the value of each.
EmptyObject == [keys |-> <<>>, val |-> [k \in {} |-> [t |-> "undefined"]]]

Put(o, key, value) ==
    IF key \in DOMAIN o.val
    THEN [o EXCEPT !.val[key] = value]
    ELSE [keys |-> Append(o.keys, key),
          val |-> [k \in DOMAIN o.val \cup {key} |-> IF k = key THEN value ELSE o.val[k]]]

RECURSIVE SpreadFrom(_, _, _)
SpreadFrom(target, source, i) ==
    IF i > Len(source.keys) THEN target
    ELSE SpreadFrom(Put(target, source.keys[i], source.val[source.keys[i]]), source, i + 1)

\* { ...target, ...source }: every own key of source is copied, also one
\* whose value is undefined.
Spread(target, source) == SpreadFrom(target, source, 1)

\* The UTF-16 code units of the strings that occur.
Chars(s) ==
    CASE s = "shown" -> <<115, 104, 111, 119, 110>>
      [] s = "opacity" -> <<111, 112, 97, 99, 105, 116, 121>>
      [] s = "font" -> <<102, 111, 110, 116>>
      [] s = "fontSize" -> <<102, 111, 110, 116, 83, 105, 122, 101>>
      [] s = "align" -> <<97, 108, 105, 103, 110>>
      [] s = "bold" -> <<98, 111, 108, 100>>
      [] s = "italic" -> <<105, 116, 97, 108, 105, 99>>
      [] s = "underscore" -> <<117, 110, 100, 101, 114, 115, 99, 111, 114, 101>>
      [] s = "lineHeight" -> <<108, 105, 110, 101, 72, 101, 105, 103, 104, 116>>
      [] s = "sans-serif" -> <<115, 97, 110, 115, 45, 115, 101, 114, 105, 102>>
      [] s = "start" -> <<115, 116, 97, 114, 116>>
      [] s = "--cdn-a-woff" -> <<45, 45, 99, 100, 110, 45, 97, 45, 119, 111, 102, 102>>
      [] s = "costarring" -> <<99, 111, 115, 116, 97, 114, 114, 105, 110, 103>>
      [] s = "liquid" -> <<108, 105, 113, 117, 105, 100>>
      [] s = "M\nMM" -> <<77, 10, 77, 77>>
      [] s = "true" -> <<116, 114, 117, 101>>
      [] s = "false" -> <<102, 97, 108, 115, 101>>

RECURSIVE Digits(_)
\* The decimal digits of a natural number.
Digits(n) == IF n < 10 THEN <<48 + n>> ELSE Digits(n \div 10) \o <<48 + (n % 10)>>

\* JSON.stringify of a value that is a number, a string or a boolean.
JSON_value(v) ==
    CASE v.t = "number"  -> Digits(v.v)
      [] v.t = "string"  -> <<34>> \o Chars(v.v) \o <<34>>
      [] v.t = "boolean" -> Chars(IF v.v THEN "true" ELSE "false")

RECURSIVE JSON_entries(_, _, _)
\* The "key":value entries from key i on; a key whose value is undefined is
\* left out.
JSON_entries(o, i, first) ==
    IF i > Len(o.keys) THEN <<>>
    ELSE IF o.val[o.keys[i]] = Undefined THEN JSON_entries(o, i + 1, first)
    ELSE (IF first THEN <<>> ELSE <<44>>)
         \o <<34>> \o Chars(o.keys[i]) \o <<34, 58>> \o JSON_value(o.val[o.keys[i]])
         \o JSON_entries(o, i + 1, FALSE)

JSON_stringify(o) == <<123>> \o JSON_entries(o, 1, TRUE) \o <<125>>

RECURSIVE Xor(_, _, _)
\* a ^ b on the n low bits.
Xor(a, b, n) ==
    IF n = 0 THEN 0
    ELSE ((a + b) % 2) + 2 * Xor(a \div 2, b \div 2, n - 1)

\* One round of 32-bit FNV-1a on the hash h = <<high 16 bits, low 16 bits>>:
\* h ^= code; h *= 16777619 (2^24 + 403), kept to 32 bits.
FnvRound(h, code) ==
    LET lo == (h[2] - (h[2] % 256)) + Xor(h[2] % 256, code, 8)
    IN  <<(h[1] * 403 + ((lo * 403) \div 65536) + (lo % 256) * 256) % 65536,
          (lo * 403) % 65536>>

RECURSIVE FnvOver(_, _, _, _)
\* The loop over the characters lo..hi, in order: the first half, then the
\* second half from the hash the first half left. h is read before a half
\* is entered, so that the half starts from a value.
FnvOver(h, codes, lo, hi) ==
    IF lo > hi \/ h = <<>> THEN h
    ELSE IF lo = hi THEN FnvRound(h, codes[lo])
    ELSE FnvOver(FnvOver(h, codes, lo, (lo + hi) \div 2),
                 codes, ((lo + hi) \div 2) + 1, hi)

\* hash(string) of @sindresorhus/fnv1a, from the offset basis 2166136261.
hash(codes) == FnvOver(<<33052, 40389>>, codes, 1, Len(codes))

-----------------------------------------------------------------------------
(* Text.measure and measureText                                            *)

\* The bound on the entries the cache holds in the model.
MaxCached == 2

\* Component.defaultOptions, as far as the drawing options go.
Component_defaultOptions ==
    Put(Put(EmptyObject, "shown", Bool(TRUE)), "opacity", Num(1))

Text_defaultOptions ==
    Put(Put(Put(Put(Put(Put(Put(Component_defaultOptions,
        "font", Str("sans-serif")),
        "fontSize", Num(20)),
        "align", Str("start")),
        "bold", Bool(FALSE)),
        "italic", Bool(FALSE)),
        "underscore", Bool(FALSE)),
        "lineHeight", Num(1))

MeasuredTexts == {"costarring", "liquid", "M\nMM"}

\* The options arguments: none, a key that is undefined, a loadable font.
OptionArgs ==
    {EmptyObject,
     Put(EmptyObject, "fontSize", Undefined),
     Put(EmptyObject, "font", Str("--cdn-a-woff"))}

RECURSIVE SplitFrom(_, _, _)
\* string.split("\n"): line is the line being read.
SplitFrom(codes, i, line) ==
    IF i > Len(codes) THEN <<line>>
    ELSE IF codes[i] = 10 THEN <<line>> \o SplitFrom(codes, i + 1, <<>>)
    ELSE SplitFrom(codes, i + 1, Append(line, codes[i]))

formatString(codes) == SplitFrom(codes, 1, <<>>)

\* The font families the browser has without loading anything.
SystemFonts == {"sans-serif", "serif"}

\* sandbox.font = Text.getFontDefinition(options): a definition the canvas
\* cannot parse ("undefinedpx sans-serif") leaves its font as it was.
Canvas_setFont(font, options) ==
    IF options.val["fontSize"].t = "number" /\ options.val["font"].t = "string"
    THEN [size |-> options.val["fontSize"].v, family |-> options.val["font"].v]
    ELSE font

\* sandbox.measureText(line).width: a family that is neither a system font
\* nor loaded is drawn with the fallback font, whose glyphs are narrower.
Canvas_measureText(font, loaded, line) ==
    Len(line) * font.size * (IF font.family \in SystemFonts \cup loaded THEN 2 ELSE 1)

Max(a, b) == IF a > b THEN a ELSE b

RECURSIVE WidestFrom(_, _, _, _)
\* lines.reduce((max, line) => Math.max(max, measureText(line).width), 0)
WidestFrom(font, loaded, lines, i) ==
    IF i > Len(lines) THEN 0
    ELSE Max(Canvas_measureText(font, loaded, lines[i]),
             WidestFrom(font, loaded, lines, i + 1))

\* measureText past its cache: the measurement itself.
Measurement(font, loaded, text, options) ==
    [width |-> Num(WidestFrom(Canvas_setFont(font, options), loaded,
                              formatString(Chars(text)), 1)),
     height |-> Times(Times(options.val["fontSize"], options.val["lineHeight"]),
                      Num(Len(formatString(Chars(text)))))]

\* hash(`${text}${JSON.stringify(options)}`)
CacheKey(text, options) == hash(Chars(text) \o JSON_stringify(options))

\* cache[key] !== undefined
Cached(cache, key) == \E e \in cache : e.key = key

\* cache[key]
CacheGet(cache, key) == (CHOOSE e \in cache : e.key = key).result

\* measureText(text, options) on the closure m; call is what the caller
\* passed, kept to tell what the call returned.
measureText(m, text, options, call) ==
    LET key == CacheKey(text, options)
        fresh == Measurement(m.font, m.loaded, text, options)
    IN  IF Cached(m.cache, key)
        THEN [m EXCEPT !.last = [called |-> TRUE, call |-> call, opts |-> options,
                                 hit |-> TRUE, result |-> CacheGet(m.cache, key),
                                 fresh |-> fresh]]
        ELSE [m EXCEPT !.font = Canvas_setFont(m.font, options),
                       !.cache = @ \cup {[key |-> key, result |-> fresh]},
                       !.last = [called |-> TRUE, call |-> call, opts |-> options,
                                 hit |-> FALSE, result |-> fresh, fresh |-> fresh]]

\* const opts = { ...this.defaultOptions, ...options }
Text_resolve(defaults, options) == Spread(defaults, options)

\* Text.measure(text, options)
Text_measure(m, text, options) ==
    measureText(m, text, Text_resolve(Text_defaultOptions, options),
                [text |-> text, options |-> options])

MeasureInit ==
    measurer = [font |-> [size |-> 10, family |-> "sans-serif"],
                cache |-> {}, loaded |-> {}, last |-> [called |-> FALSE]]

MeasureOthers == <<sprite, texts, rejections, select, pointer, nav, tree, color, rectangle>>

MeasureCall ==
    /\ UNCHANGED MeasureOthers
    /\ \E text \in MeasuredTexts, options \in OptionArgs :
          /\ measurer' = Text_measure(measurer, text, options)
          /\ Cardinality(measurer'.cache) <= MaxCached

\* The font face that Text.load added to document.fonts has loaded.
MeasureFontLoaded ==
    /\ UNCHANGED MeasureOthers
    /\ \E family \in {"--cdn-a-woff"} :
          /\ family \notin measurer.loaded
          /\ measurer' = [measurer EXCEPT !.loaded = @ \cup {family}]

MeasureNext ==
    \/ MeasureCall
    \/ MeasureFontLoaded

-----------------------------------------------------------------------------
(* Serialization: toJSON and from                                          *)

\* The bound on the children of the root in the model.
MaxChildren == 2

Null == [t |-> "null"]

Arr(items) == [t |-> "array", items |-> items]

\* A string given by its characters.
Text_string(codes) == [t |-> "string", codes |-> codes]

Pos(x, y) == [t |-> "position", x |-> x, y |-> y]

\* A parameter with a default value: the default stands in for undefined.
Default(value, default) == IF value = Undefined THEN default ELSE value

Coordinate(items, i) ==
    IF i <= Len(items) /\ items[i].t = "number" THEN items[i].v ELSE 0

\* Position.from(definition): a Position is kept, an array gives its
\* first two items, a missing coordinate is 0.
Position_from(definition) ==
    CASE definition.t = "position" -> definition
      [] definition.t = "array" ->
            Pos(Coordinate(definition.items, 1), Coordinate(definition.items, 2))
      [] OTHER -> Pos(0, 0)

\* The fill of Component.defaultOptions.
Component_fill == Str("#000")

Line_defaultOptions ==
    Put(Put(Put(Put(Put(Component_defaultOptions,
        "cap", Str("round")),
        "join", Str("round")),
        "fill", Null),
        "cursor", Null),
        "stroke", Component_fill)

Arc_defaultOptions == Put(Line_defaultOptions, "join", Null)

Sprite_defaultOptions ==
    Put(Put(Component_defaultOptions, "speed", Num(FrameUnit)), "loop", Bool(TRUE))

\* Input.defaultOptions, as far as the drawing options go.
Input_defaultOptions == Component_defaultOptions

Select_defaultOptions ==
    Put(Spread(Text_defaultOptions, Input_defaultOptions), "value", Num(0))

\* this.constructor.defaultOptions
DefaultOptions(type) ==
    CASE type = "Rectangle" -> Component_defaultOptions
      [] type = "Line"      -> Line_defaultOptions
      [] type = "Arc"       -> Arc_defaultOptions
      [] type = "Text"      -> Text_defaultOptions
      [] type = "Sprite"    -> Sprite_defaultOptions
      [] type = "Select"    -> Select_defaultOptions

\* Component.constructor(positionDefinition, options): no children yet.
Component_new(type, positionDefinition, options) ==
    [type |-> type,
     position |-> Position_from(positionDefinition),
     options |-> Spread(DefaultOptions(type), Default(options, EmptyObject)),
     children |-> <<>>,
     shape |-> <<>>]

\* new Rectangle(positionDefinition, width = 0, height = 0, options)
new_Rectangle(positionDefinition, width, height, options) ==
    [Component_new("Rectangle", positionDefinition, options) EXCEPT
        !.shape = [width |-> Default(width, Num(0)),
                   height |-> Default(height, Num(0))]]

\* points.slice(0, 2).every(n => n === undefined || typeof n === "number")
IsOnePosition(points) ==
    \A i \in 1 .. Len(points.items) :
        i <= 2 => points.items[i].t \in {"undefined", "number"}

\* new Line(positionDefinition, points, options)
new_Line(positionDefinition, points, options) ==
    [Component_new("Line", positionDefinition, options) EXCEPT
        !.shape = [points |->
            IF IsOnePosition(points)
            THEN <<Position_from(points)>>
            ELSE [i \in 1 .. Len(points.items) |-> Position_from(points.items[i])]]]

\* new Arc(positionDefinition, horizontalRadius = 0, verticalRadius = 0,
\*         startAngle = 0, endAngle = 0.5, options); an angle is counted in
\* halves of a turn.
new_Arc(positionDefinition, horizontalRadius, verticalRadius, startAngle, endAngle, options) ==
    [Component_new("Arc", positionDefinition, options) EXCEPT
        !.shape = [horizontalRadius |-> Default(horizontalRadius, Num(0)),
                   verticalRadius |-> Default(verticalRadius, Num(0)),
                   startAngle |-> Default(startAngle, Num(0)),
                   endAngle |-> Default(endAngle, Num(1))]]

\* new Text(positionDefinition, text = "", options): set text keeps the
\* lines of the text.
new_Text(positionDefinition, text, options) ==
    [Component_new("Text", positionDefinition, options) EXCEPT
        !.shape = [lines |-> formatString(Default(text, Text_string(<<>>)).codes)]]

RECURSIVE Join(_, _)
\* lines.join("\n") from line i on.
Join(lines, i) ==
    IF i > Len(lines) THEN <<>>
    ELSE IF i = Len(lines) THEN lines[i]
    ELSE lines[i] \o <<10>> \o Join(lines, i + 1)

\* get text ()
Text_text(node) == Text_string(Join(node.shape.lines, 1))

\* new Sprite(positionDefinition, url, frames, options)
new_Sprite(positionDefinition, url, frames, options) ==
    LET component == Component_new("Sprite", positionDefinition, options)
    IN  [component EXCEPT
            !.shape = [url |-> url,
                       sprite |-> Sprite_new(frames,
                                             component.options.val["speed"].v,
                                             component.options.val["loop"].v)]]

\* new Select(positionDefinition, optionsList, options)
new_Select(positionDefinition, optionsList, options) ==
    LET component == Component_new("Select", positionDefinition, options)
    IN  [component EXCEPT
            !.shape = Select_new(optionsList, component.options.val["value"].v)]

RECURSIVE toJSON(_)
\* Component.toJSON: the type tag, the position, the options and the
\* children, each serialized in its turn; shape is filled in by the type.
Component_toJSON(node) ==
    [constructor |-> node.type,
     position |-> node.position,
     options |-> node.options,
     children |-> [i \in 1 .. Len(node.children) |-> toJSON(node.children[i])],
     shape |-> <<>>]

Rectangle_toJSON(node) ==
    [Component_toJSON(node) EXCEPT
        !.shape = [width |-> node.shape.width, height |-> node.shape.height]]

Line_toJSON(node) ==
    [Component_toJSON(node) EXCEPT !.shape = [points |-> node.shape.points]]

Arc_toJSON(node) ==
    [Component_toJSON(node) EXCEPT
        !.shape = [horizontalRadius |-> node.shape.horizontalRadius,
                   verticalRadius |-> node.shape.verticalRadius,
                   startAngle |-> node.shape.startAngle,
                   endAngle |-> node.shape.endAngle]]

Text_toJSON(node) ==
    [Component_toJSON(node) EXCEPT !.shape = [text |-> Text_text(node)]]

Sprite_toJSON(node) ==
    [Component_toJSON(node) EXCEPT
        !.shape = [url |-> node.shape.url,
                   frames |-> node.shape.sprite.frames,
                   frame |-> node.shape.sprite.frame,
                   isPaused |-> node.shape.sprite.isPaused]]

\* json.values = this.optionsList.map(component => component.text)
Select_toJSON(node) ==
    [Component_toJSON(node) EXCEPT !.shape = [values |-> node.shape.optionsList]]

toJSON(node) ==
    CASE node.type = "Rectangle" -> Rectangle_toJSON(node)
      [] node.type = "Line"      -> Line_toJSON(node)
      [] node.type = "Arc"       -> Arc_toJSON(node)
      [] node.type = "Text"      -> Text_toJSON(node)
      [] node.type = "Sprite"    -> Sprite_toJSON(node)
      [] node.type = "Select"    -> Select_toJSON(node)

Rectangle_from(definition) ==
    new_Rectangle(definition.position, definition.shape.width,
                  definition.shape.height, definition.options)

Line_from(definition) ==
    new_Line(definition.position, Arr(definition.shape.points), definition.options)

Arc_from(definition) ==
    new_Arc(definition.position,
            definition.shape.horizontalRadius, definition.shape.verticalRadius,
            definition.shape.startAngle, definition.shape.endAngle,
            definition.options)

Text_from(definition) ==
    new_Text(definition.position, definition.shape.text, definition.options)

\* sprite.setFrame(frame); if (isPaused) sprite.pause();
Sprite_from(definition) ==
    LET made == new_Sprite(definition.position, definition.shape.url,
                           definition.shape.frames, definition.options)
        set == [made EXCEPT !.shape.sprite = Sprite_setFrame(@, definition.shape.frame)]
    IN  IF definition.shape.isPaused
        THEN [set EXCEPT !.shape.sprite = Sprite_pause(@)]
        ELSE set

Select_from(definition) ==
    new_Select(definition.position, definition.shape.values, definition.options)

RECURSIVE from(_)
\* from(definition): the constructor registered for the type tag builds
\* the node, the children are built in their turn and added in order.
from(definition) ==
    LET made == CASE definition.constructor = "Rectangle" -> Rectangle_from(definition)
                  [] definition.constructor = "Line"      -> Line_from(definition)
                  [] definition.constructor = "Arc"       -> Arc_from(definition)
                  [] definition.constructor = "Text"      -> Text_from(definition)
                  [] definition.constructor = "Sprite"    -> Sprite_from(definition)
                  [] definition.constructor = "Select"    -> Select_from(definition)
    IN  [made EXCEPT
            !.children = [i \in 1 .. Len(definition.children) |->
                            from(definition.children[i])]]

\* The fields of a node that are particular to its type.  For a Select
\* they are the option values and the text of the Text that displays the
\* selection.
Fields(node) ==
    CASE node.type = "Text"   -> [text |-> Text_text(node)]
      [] node.type = "Sprite" -> [frames |-> node.shape.sprite.frames,
                                  frame |-> node.shape.sprite.frame,
                                  isPaused |-> node.shape.sprite.isPaused]
      [] node.type = "Select" -> [values |-> node.shape.optionsList,
                                  display |-> node.shape.display]
      [] OTHER                -> node.shape

RECURSIVE Structure(_)
\* What a tree is made of: at every level the type tag, the position, the
\* options (the rotation among them), the fields and the children in order.
Structure(node) ==
    [type |-> node.type,
     position |-> node.position,
     options |-> node.options,
     fields |-> Fields(node),
     children |-> [i \in 1 .. Len(node.children) |-> Structure(node.children[i])]]

\* Two ways to call a constructor: every optional argument left out, and
\* every argument given.
Given == {FALSE, TRUE}

PositionArg(given) == IF given THEN Arr(<<Num(3), Num(4)>>) ELSE Undefined

OptionsArg(given) == IF given THEN Put(EmptyObject, "rotation", Num(1)) ELSE Undefined

NumberArg(given, n) == IF given THEN Num(n) ELSE Undefined

\* The points of a Line: none, one end point, a list of points.
LinePoints ==
    {Arr(<<>>),
     Arr(<<Num(3), Num(4)>>),
     Arr(<<Arr(<<Num(1), Num(2)>>), Arr(<<Num(3), Num(4)>>)>>)}

\* The paths to the nodes: the root, or the child at an index.
Paths == {<<>>} \cup {<<i>> : i \in 1 .. MaxChildren}

HasNode(t, path) ==
    IF ~t.made THEN FALSE
    ELSE IF path = <<>> THEN TRUE
    ELSE path[1] <= Len(t.root.children)

NodeAt(t, path) == IF path = <<>> THEN t.root ELSE t.root.children[path[1]]

\* The tree with the node at the path replaced; its copy is out of date.
WithNode(t, path, node) ==
    IF path = <<>>
    THEN [t EXCEPT !.root = node, !.copied = FALSE, !.copy = <<>>]
    ELSE [t EXCEPT !.root.children[path[1]] = node, !.copied = FALSE, !.copy = <<>>]

CanAdd(t) == IF t.made THEN Len(t.root.children) < MaxChildren ELSE TRUE

\* The first node is the root; a later one is added to the root: add(node).
Add(t, node) ==
    IF ~t.made
    THEN [made |-> TRUE, root |-> node, copied |-> FALSE, copy |-> <<>>]
    ELSE [t EXCEPT !.root.children = Append(@, node), !.copied = FALSE, !.copy = <<>>]

TreeInit == tree = [made |-> FALSE, root |-> <<>>, copied |-> FALSE, copy |-> <<>>]

TreeOthers == <<sprite, texts, rejections, select, pointer, nav, measurer, color, rectangle>>

AddRectangle ==
    /\ UNCHANGED TreeOthers
    /\ CanAdd(tree)
    /\ \E given \in Given :
          tree' = Add(tree, new_Rectangle(PositionArg(given), NumberArg(given, 5),
                                          NumberArg(given, 6), OptionsArg(given)))

AddLine ==
    /\ UNCHANGED TreeOthers
    /\ CanAdd(tree)
    /\ \E points \in LinePoints :
          tree' = Add(tree, new_Line(PositionArg(Len(points.items) > 0), points,
                                     OptionsArg(Len(points.items) > 0)))

AddArc ==
    /\ UNCHANGED TreeOthers
    /\ CanAdd(tree)
    /\ \E given \in Given :
          tree' = Add(tree, new_Arc(PositionArg(given), NumberArg(given, 5),
                                    NumberArg(given, 6), NumberArg(given, 1),
                                    NumberArg(given, 2), OptionsArg(given)))

AddText ==
    /\ UNCHANGED TreeOthers
    /\ CanAdd(tree)
    /\ \E given \in Given :
          tree' = Add(tree, new_Text(PositionArg(given),
                                     IF given THEN Text_string(Chars("M\nMM")) ELSE Undefined,
                                     OptionsArg(given)))

AddSprite ==
    /\ UNCHANGED TreeOthers
    /\ CanAdd(tree)
    /\ \E given \in Given :
          tree' = Add(tree, new_Sprite(PositionArg(given), "sheet.png",
                                       SelectSeq2(SheetKeys, [kind |-> "string", value |-> "run_*"]),
                                       OptionsArg(given)))

AddSelect ==
    /\ UNCHANGED TreeOthers
    /\ CanAdd(tree)
    /\ \E given \in Given :
          tree' = Add(tree, new_Select(PositionArg(given),
                                       IF given THEN <<"b", "", "a">> ELSE <<"a", "b">>,
                                       OptionsArg(given)))

\* select.value = value
SetSelectValue ==
    /\ UNCHANGED TreeOthers
    /\ \E path \in Paths, value \in 0 .. 2 :
          /\ HasNode(tree, path)
          /\ NodeAt(tree, path).type = "Select"
          /\ tree' = WithNode(tree, path,
                        [NodeAt(tree, path) EXCEPT !.shape = Select_value(@, value)])

\* sprite.setFrame(frame)
SetSpriteFrame ==
    /\ UNCHANGED TreeOthers
    /\ \E path \in Paths, frame \in {FrameUnit + 1} :
          /\ HasNode(tree, path)
          /\ NodeAt(tree, path).type = "Sprite"
          /\ tree' = WithNode(tree, path,
                        [NodeAt(tree, path) EXCEPT !.shape.sprite = Sprite_setFrame(@, frame)])

\* sprite.pause()
PauseSprite ==
    /\ UNCHANGED TreeOthers
    /\ \E path \in Paths :
          /\ HasNode(tree, path)
          /\ NodeAt(tree, path).type = "Sprite"
          /\ ~NodeAt(tree, path).shape.sprite.isPaused
          /\ tree' = WithNode(tree, path,
                        [NodeAt(tree, path) EXCEPT !.shape.sprite = Sprite_pause(@)])

\* copy = from(root.toJSON())
RoundTrip ==
    /\ UNCHANGED TreeOthers
    /\ tree.made
    /\ ~tree.copied
    /\ tree' = [tree EXCEPT !.copied = TRUE, !.copy = from(toJSON(tree.root))]

TreeNext ==
    \/ AddRectangle
    \/ AddLine
    \/ AddArc
    \/ AddText
    \/ AddSprite
    \/ AddSelect
    \/ SetSelectValue
    \/ SetSpriteFrame
    \/ PauseSprite
    \/ RoundTrip

-----------------------------------------------------------------------------
(* Select, built from a definition                                         *)

\* The definitions handed to Select.from: the values, and options with or
\* without a value.
SelectDefinitions ==
    {[constructor |-> "Select", position |-> Pos(0, 0), options |-> options,
      children |-> <<>>, shape |-> [values |-> values]] :
        values \in {<<>>, <<"c", "a">>, <<"a", "b", "c">>},
        options \in {EmptyObject} \cup {Put(EmptyObject, "value", Num(k)) : k \in 0 .. 2}}

\* select = Select.from(definition)
SelectFrom ==
    /\ UNCHANGED SelectOthers
    /\ ~select.made
    /\ \E definition \in SelectDefinitions :
          select' = Select_from(definition).shape
    /\ UNCHANGED pointer

SelectNext ==
    \/ SelectNew
    \/ SelectFrom
    \/ SelectSetValue
    \/ PointerMove
    \/ PointerClickSelect
    \/ PointerClickRow

-----------------------------------------------------------------------------
(* Color.  A channel, an alpha and every other number is kept as the       *)
(* integer count of units of 1/0xff, so that a ratio got from a byte is     *)
(* exact; the whole number h is h * Full units.                             *)

\* 0xff
Full == 255

\* The whole number h.
Whole(h) == Num(h * Full)

\* hexToRatio(hex, n): ((hex >> (8 * n)) & 0xff) / 0xff
hexToRatio(hex, n) ==
    LET int == hex \div Full
    IN  CASE n = 0 -> int % 256
          [] n = 1 -> (int \div 256) % 256
          [] n = 2 -> (int \div 65536) % 256

\* The hexadecimal digits of a string after its "#"; a string that does
\* not start with "#" has none.
HexDigits(string) ==
    CASE string = "#123"    -> <<1, 2, 3>>
      [] string = "#1234ff" -> <<1, 2, 3, 4, 15, 15>>
      [] OTHER              -> <<>>

startsWith(string) == string \in {"#123", "#1234ff"}

RECURSIVE Repeat2(_)
\* hexString.split("").map(char => char.repeat(2)).join("")
Repeat2(digits) ==
    IF digits = <<>> THEN <<>>
    ELSE <<Head(digits), Head(digits)>> \o Repeat2(Tail(digits))

RECURSIVE parseInt(_, _)
\* Number.parseInt(str, 16), acc being the number read so far.
parseInt(digits, acc) ==
    IF digits = <<>> THEN acc
    ELSE parseInt(Tail(digits), (acc * 16) + Head(digits))

\* convert.keyword.rgb(name) || [0, 0, 0]
keyword_rgb(name) ==
    CASE name = "red"    -> <<255, 0, 0>>
      [] name = "violet" -> <<238, 130, 238>>
      [] OTHER           -> <<0, 0, 0>>

NoColor == [t |-> "color", made |-> FALSE, red |-> 0, green |-> 0, blue |-> 0, alpha |-> 0]

\* set(...colorDefinition)
Color_set(c, colorDefinition) ==
    IF Len(colorDefinition) > 0 /\ Len(colorDefinition) < 3
    THEN LET param == colorDefinition[1]
         IN  IF param.t = "color"
             THEN [c EXCEPT !.red = param.red, !.green = param.green,
                            !.blue = param.blue, !.alpha = param.alpha]
             ELSE LET hex == IF param.t = "string" /\ startsWith(param.v)
                             THEN Whole(parseInt(IF Len(HexDigits(param.v)) < 4
                                                 THEN Repeat2(HexDigits(param.v))
                                                 ELSE HexDigits(param.v), 0))
                             ELSE param
                      rgb == keyword_rgb(param.v)
                      named == IF param.t = "string" /\ ~startsWith(param.v)
                               THEN [c EXCEPT !.red = rgb[1], !.green = rgb[2], !.blue = rgb[3]]
                               ELSE c
                      hexed == IF hex.t = "number"
                               THEN [named EXCEPT !.red = hexToRatio(hex.v, 2),
                                                  !.green = hexToRatio(hex.v, 1),
                                                  !.blue = hexToRatio(hex.v, 0)]
                               ELSE named
                      alpha == IF Len(colorDefinition) > 1 THEN colorDefinition[2] ELSE Undefined
                  IN  IF alpha # Undefined
                      THEN [hexed EXCEPT !.alpha = constrain(alpha.v, 0, Full)]
                      ELSE hexed
    ELSE IF Len(colorDefinition) > 2
    THEN LET alpha == IF Len(colorDefinition) > 3 THEN colorDefinition[4] ELSE Undefined
             set == [c EXCEPT !.red = constrain(colorDefinition[1].v, 0, Full),
                              !.green = constrain(colorDefinition[2].v, 0, Full),
                              !.blue = constrain(colorDefinition[3].v, 0, Full)]
         IN  IF alpha # Undefined
             THEN [set EXCEPT !.alpha = constrain(alpha.v, 0, Full)]
             ELSE set
    ELSE c

\* new Color(...colorDefinition)
Color_new(colorDefinition) ==
    Color_set([t |-> "color", made |-> TRUE, red |-> 0, green |-> 0, blue |-> 0,
               alpha |-> Full],
              colorDefinition)

\* The alpha parameters: some in 0 .. 1, some below and above.
Alphas == {Num(0 - 51), Num(0), Num(51), Num(Full), Num(Full + 51)}

\* The definitions of one parameter, c being the colour at hand.
OneParameter(c) ==
    {Str("red"), Str("violet"), Str("nocolor"), Str("#123"), Str("#1234ff"),
     Whole(1193046), Color_new(<<Str("red")>>)}
    \cup (IF c.made THEN {c} ELSE {})

\* The definitions by red, green and blue.
ThreeParameters == {<<Num(0), Num(51), Num(Full)>>, <<Num(0 - 51), Num(102), Num(Full + 51)>>}

\* Every definition, without and with the alpha parameter.
ColorDefinitions(c) ==
    {<<>>}
    \cup {<<param>> : param \in OneParameter(c)}
    \cup {<<param, alpha>> : param \in OneParameter(c), alpha \in Alphas}
    \cup ThreeParameters
    \cup {rgb \o <<alpha>> : rgb \in ThreeParameters, alpha \in Alphas}

ColorInit == color = [c |-> NoColor, op |-> "none", args |-> <<>>]

ColorOthers == <<sprite, texts, rejections, select, pointer, nav, measurer, tree, rectangle>>

ColorNew ==
    /\ UNCHANGED ColorOthers
    /\ \E colorDefinition \in ColorDefinitions(color.c) :
          color' = [c |-> Color_new(colorDefinition), op |-> "new", args |-> colorDefinition]

ColorSet ==
    /\ UNCHANGED ColorOthers
    /\ color.c.made
    /\ \E colorDefinition \in ColorDefinitions(color.c) :
          color' = [c |-> Color_set(color.c, colorDefinition), op |-> "set",
                    args |-> colorDefinition]

ColorNext ==
    \/ ColorNew
    \/ ColorSet

-----------------------------------------------------------------------------
(* Sprite, built from a definition, and a sprite that is only rendered     *)

\* The definitions handed to Sprite.from: two or three frames, a frame
\* number in or out of their range, options with or without speed and loop.
SpriteDefinitions ==
    {[constructor |-> "Sprite", position |-> Pos(0, 0), options |-> options,
      children |-> <<>>,
      shape |-> [url |-> "sheet.png", frames |-> SelectSeq2(SheetKeys, selector),
                 frame |-> frame, isPaused |-> isPaused]] :
        options \in {EmptyObject,
                     Put(Put(EmptyObject, "speed", Num(FrameUnit + 1)), "loop", Bool(FALSE))},
        selector \in {[kind |-> "string", value |-> "run_*"], [kind |-> "string", value |-> "*"]},
        frame \in {0 - 1, 0, FrameUnit + 1, (Len(SheetKeys) * FrameUnit) + 1},
        isPaused \in BOOLEAN}

\* sprite = Sprite.from(definition)
SpriteFrom ==
    /\ UNCHANGED SpriteOthers
    /\ ~sprite.made
    /\ \E definition \in SpriteDefinitions :
          sprite' = Sprite_from(definition).shape.sprite

SpriteNext ==
    \/ SpriteExtract
    \/ SpriteFrom
    \/ SpriteLoaded
    \/ SpriteAttach
    \/ SpriteDetach
    \/ SpriteShow
    \/ SpriteHide
    \/ SpritePlay
    \/ SpritePause
    \/ SpriteSetFrame
    \/ SpriteTick

\* A sprite that is extracted, loaded and attached and then only rendered.
PlayNext ==
    \/ SpriteExtract
    \/ SpriteLoaded
    \/ SpriteAttach
    \/ SpriteTick

-----------------------------------------------------------------------------
(* Rectangle.getOrigin                                                     *)

\* Lengths and coordinates are counted in halves, so that -width / 2 is a
\* whole number of them.
Halves == 2

\* The widest and highest rectangle built, in whole units.
MaxSide == 2

Sides == {Halves * n : n \in (0 - 1) .. MaxSide}

\* Rectangle.origins
Rectangle_origins ==
    [topLeft |-> "topLeft", topRight |-> "topRight", center |-> "center",
     bottomLeft |-> "bottomLeft", bottomRight |-> "bottomRight"]

\* The origin of Component.defaultOptions.
Component_origin == Pos(0, 0)

\* The values options.origin is given: the names, other strings, and
\* positions as a Position or as an array.
OriginOptions ==
    {Str(name) : name \in {"topLeft", "topRight", "center", "bottomLeft",
                           "bottomRight", "middle", ""}}
    \cup {Pos(0, 0), Pos(Halves, 0 - Halves), Arr(<<Num(3 * Halves), Num(Halves)>>)}

\* Whether a value counts as true in a condition.
Truthy(value) ==
    CASE value.t = "boolean" -> value.v
      [] value.t = "number"  -> value.v # 0
      [] OTHER               -> FALSE

\* a && b
AndThen(a, b) == IF Truthy(a) THEN b ELSE a

\* a || b
OrElse(a, b) == IF Truthy(a) THEN a ELSE b

\* [first, second].includes(value)
includes(first, second, value) == Bool(value = first \/ value = second)

\* position.set(x, y)
Position_set(x, y) == Pos(x.v, y.v)

\* Component.getOrigin (): the origin option as a Position.
Component_getOrigin(r) == Position_from(r.origin)

NoRectangle ==
    [made |-> FALSE, width |-> 0, height |-> 0, origin |-> Component_origin]

\* new Rectangle(position, width, height, { origin }); origin is undefined
\* when the options leave it out.
Rectangle_new(width, height, origin) ==
    [made |-> TRUE, width |-> width, height |-> height,
     origin |-> Default(origin, Component_origin)]

\* A getOrigin that takes the side to shift by from the wrong list.
Rectangle_getOriginCrossed(r) ==
    IF r.origin.t = "string"
    THEN LET origins == Rectangle_origins
             origin == r.origin.v
         IN  IF origin = origins.center
             THEN Position_set(Num((0 - r.width) \div 2), Num((0 - r.height) \div 2))
             ELSE Position_set(
                     OrElse(AndThen(includes(origins.bottomLeft, origins.bottomRight, origin),
                                    Num(0 - r.width)), Num(0)),
                     OrElse(AndThen(includes(origins.topRight, origins.bottomRight, origin),
                                    Num(0 - r.height)), Num(0)))
    ELSE Component_getOrigin(r)

\* getOrigin ()
Rectangle_getOrigin(r) ==
    IF r.origin.t = "string"
    THEN LET origins == Rectangle_origins
             origin == r.origin.v
         IN  IF origin = origins.center
             THEN Position_set(Num((0 - r.width) \div 2), Num((0 - r.height) \div 2))
             ELSE Position_set(
                     OrElse(AndThen(includes(origins.topRight, origins.bottomRight, origin),
                                    Num(0 - r.width)), Num(0)),
                     OrElse(AndThen(includes(origins.bottomLeft, origins.bottomRight, origin),
                                    Num(0 - r.height)), Num(0)))
    ELSE Component_getOrigin(r)

\* call is the last call of getOrigin: the rectangle as it was and the
\* position returned.
RectangleInit == rectangle = [r |-> NoRectangle, call |-> <<>>]

RectangleOthers ==
    <<sprite, texts, rejections, select, pointer, nav, measurer, tree, color>>

RectangleNew ==
    /\ UNCHANGED RectangleOthers
    /\ ~rectangle.r.made
    /\ \E width \in Sides, height \in Sides, origin \in {Undefined, Str("center")} :
          rectangle' = [rectangle EXCEPT !.r = Rectangle_new(width, height, origin)]

\* rectangle.options.origin = origin
RectangleSetOrigin ==
    /\ UNCHANGED RectangleOthers
    /\ rectangle.r.made
    /\ \E origin \in OriginOptions :
          rectangle' = [rectangle EXCEPT !.r.origin = origin]

RectangleGetOrigin ==
    /\ UNCHANGED RectangleOthers
    /\ rectangle.r.made
    /\ rectangle' = [rectangle EXCEPT
            !.call = <<[on |-> rectangle.r, position |-> Rectangle_getOrigin(rectangle.r)]>>]

RectangleNext ==
    \/ RectangleNew
    \/ RectangleSetOrigin
    \/ RectangleGetOrigin

-----------------------------------------------------------------------------
(* Specifications                                                          *)

Init ==
    /\ SpriteInit
    /\ TextInit
    /\ SelectInit
    /\ NavInit
    /\ MeasureInit
    /\ TreeInit
    /\ ColorInit
    /\ RectangleInit

SpecSprite == Init /\ [][SpriteNext]_vars

SpecText == Init /\ [][TextNext]_vars

SpecSelect == Init /\ [][SelectNext]_vars

SpecNav == Init /\ [][NavNext]_vars

SpecMeasure == Init /\ [][MeasureNext]_vars

SpecTree == Init /\ [][TreeNext]_vars

SpecColor == Init /\ [][ColorNext]_vars

\* The render loop runs on every animation frame: a render that can happen
\* does happen.
SpecPlay == Init /\ [][PlayNext]_vars /\ WF_vars(SpriteTick)

SpecRectangle == Init /\ [][RectangleNext]_vars

-----------------------------------------------------------------------------
(* Sprite: properties                                                      *)

Visible(s) == s.attached /\ s.shown

Advances(s) ==
    /\ ~NoFrameAt(s) /\ s.isLoaded /\ ~s.isPaused
    /\ (s.loop \/ s.frame < (Len(s.frames) - 1) * FrameUnit)

\* C2: a render tick runs the sprite's makePath, and with it the frame
\* advance, exactly once when the sprite is attached and shown and not at
\* all when it is hidden or detached; while it is hidden or detached,
\* ticks, show/hide and attach/detach leave the frame where it is and fire
\* no frame or end event.
C2_StepOncePerTick ==
    [][/\ SpriteTick =>
            /\ sprite'.calls = (IF Visible(sprite) THEN 1 ELSE 0)
            /\ (Visible(sprite) /\ Advances(sprite)) =>
                    (sprite'.frame = modulo(sprite.frame + sprite.speed,
                                            Len(sprite.frames) * FrameUnit))
            /\ (Visible(sprite) /\ ~Advances(sprite)) => (sprite'.frame = sprite.frame)
            /\ (~Visible(sprite)) => (sprite'.log = <<>>)
       /\ ((SpriteTick \/ SpriteShow \/ SpriteHide \/ SpriteAttach \/ SpriteDetach)
              /\ ~Visible(sprite)) =>
            (sprite'.frame = sprite.frame /\ sprite'.log \in {<<>>, sprite.log})]_vars

\* C2 witness: a tick ran makePath once and the frame moved on by one
\* advance, after an earlier tick had been skipped.
C2_Witness ==
    /\ sprite.calls = 1
    /\ sprite.log = <<"draw", "sprite-frame">>
    /\ sprite.frame = 1 * FrameUnit
    /\ sprite.speed = FrameUnit

\* C3: in a render tick a loaded sprite is painted once, before anything
\* else the tick does to it, with the frame it had when the tick began:
\* the source rectangle, the width and the height are that frame's, and the
\* frame advance and the frame and end events come after the paint.
C3_PaintBeforeStep ==
    [][SpriteTick /\ Visible(sprite) /\ sprite.isLoaded /\ ~NoFrameAt(sprite) =>
          /\ sprite'.drawn.done
          /\ sprite'.drawn.index = floor(sprite.frame)
          /\ sprite'.drawn.source = FrameAt(sprite).frame
          /\ sprite'.drawn.width = FrameAt(sprite).spriteSourceSize.w
          /\ sprite'.drawn.height = FrameAt(sprite).spriteSourceSize.h
          /\ Head(sprite'.log) = "draw"
          /\ \A i \in 2 .. Len(sprite'.log) : sprite'.log[i] # "draw"]_vars

\* C3 witness: the tick painted frame 0 and then moved on to frame 1, firing
\* the frame and end events after the paint.
C3_Witness ==
    /\ sprite.drawn.done
    /\ sprite.drawn.index = 0
    /\ floor(sprite.frame) = 1
    /\ sprite.log = <<"draw", "sprite-frame", "sprite-end">>

\* C7: makePath and draw never throw, whatever selector the sprite was
\* extracted with and whatever frame was set.
C7_PaintNeverThrows == ~sprite.threw

-----------------------------------------------------------------------------
(* Text: properties                                                        *)

\* C4: once the font load of a Text was rejected and the promise reactions
\* have run, the Text has fired a load-failure event and no promise
\* rejection is left unhandled.
C4_LoadFailureIsAnEvent ==
    \A id \in TextIds :
        (texts[id].load = "rejected" /\ texts[id].done # "pending") =>
            (texts[id].failed > 0 /\ id \notin rejections)

-----------------------------------------------------------------------------
(* Select: properties                                                      *)

HoverRows == {i \in 1 .. Len(select.fills) : select.fills[i] = HoverFill}

\* C8: a pointer move from row X to row Y fires X's leave before Y's
\* hover; so at most one row has the hover fill, the row that has it is
\* the row the pointer hovers, and every other row has the background fill.
C8_OneHoverRow ==
    /\ Cardinality(HoverRows) <= 1
    /\ \A i \in 1 .. Len(select.fills) :
          /\ select.fills[i] \in {HoverFill, BackgroundFill}
          /\ select.fills[i] = HoverFill => pointer.hovered = OnRow(i - 1)
    /\ \A i, j \in 1 .. Len(pointer.events) :
          (pointer.events[i].name = "hover" /\ pointer.events[j].name = "leave") => j < i

\* C8 witness: the pointer went straight from row 0 to row 1, and row 1
\* alone has the hover fill.
C8_Witness ==
    /\ pointer.events = <<[name |-> "leave", target |-> OnRow(0)],
                          [name |-> "hover", target |-> OnRow(1)]>>
    /\ HoverRows = {2}

-----------------------------------------------------------------------------
(* Navigation: properties                                                  *)

\* C9: after displayScene(s), getCurrentScene() is s, whether or not s was
\* built by prepareScenes.
C9_DisplayedIsCurrent ==
    nav.last.op = "displayScene" => nav.current = nav.last.scene

\* C9 witness: a scene made outside prepareScenes was displayed after the
\* scenes were prepared.
C9_Witness ==
    /\ nav.last = [op |-> "displayScene", scene |-> "outsider"]
    /\ nav.exists["home"]
    /\ nav.current = "outsider"

\* C10 as stated: the current scene is shown; after prepareScenes the first
\* scene is current and shown; after a change event naming a prepared scene
\* that scene is current and shown and the home scene is hidden.
C10_AsStated ==
    /\ nav.current # "none" => nav.shown[nav.current]
    /\ nav.last.op = "prepareScenes" =>
          (nav.current = Prepared[1] /\ nav.shown[Prepared[1]])
    /\ nav.last.op = "change" =>
          /\ nav.current = nav.last.scene
          /\ nav.shown[nav.last.scene]
          /\ ~nav.shown[Prepared[1]]

\* C10 amended: the current scene is shown; after prepareScenes the first
\* scene is current and shown; after a change event naming a prepared scene
\* that scene is current and shown, and the home scene is hidden unless it
\* is the scene named.
C10_CurrentIsShown ==
    /\ nav.current # "none" => nav.shown[nav.current]
    /\ nav.last.op = "prepareScenes" =>
          (nav.current = Prepared[1] /\ nav.shown[Prepared[1]])
    /\ nav.last.op = "change" =>
          /\ nav.current = nav.last.scene
          /\ nav.shown[nav.last.scene]
          /\ nav.last.scene # Prepared[1] => ~nav.shown[Prepared[1]]

\* C10 witness: an outside scene was displayed and then fired a change
\* event naming "other", which is now current and shown, home being hidden.
C10_Witness ==
    /\ nav.last = [op |-> "change", scene |-> "other"]
    /\ nav.exists["outsider"] /\ ~nav.shown["outsider"]
    /\ nav.current = "other" /\ nav.shown["other"]
    /\ ~nav.shown["home"]

-----------------------------------------------------------------------------
(* Text.measure: properties                                                *)

\* C5: the options Text.measure resolves hold a defined value for every key
\* of Text.defaultOptions and of the defaults it extends, also when the
\* options argument carries a key whose value is undefined.
C5_ResolvedOptionsDefined ==
    measurer.last.called =>
        \A k \in DOMAIN Text_defaultOptions.val : measurer.last.opts.val[k] # Undefined

\* C6: what Text.measure returns for (text, options) is what measuring that
\* text with those options without the cache gives at the moment of the
\* call.
C6_CacheIsTransparent ==
    measurer.last.called => measurer.last.result = measurer.last.fresh

-----------------------------------------------------------------------------
(* Serialization: properties                                               *)

\* C1: the tree that from(toJSON(T)) gives has at every level the type
\* tag, the position, the rotation and the other options, the fields of
\* the type and the order of the children that T has.
C1_RoundTrip ==
    tree.copied => Structure(tree.copy) = Structure(tree.root)

-----------------------------------------------------------------------------
(* Select: the value option, the empty list, the selected index            *)

\* C11: a Select just built, by its constructor or by Select.from, over a
\* list of n items with options.value = k has the selected index k kept in
\* 0 .. n - 1 and displays that option.
C11_ValueOptionIsSelected ==
    [][(~select.made /\ select'.made) =>
          (/\ select'.selected = constrain(select'.value, 0, Len(select'.optionsList) - 1)
           /\ select'.display = select'.optionsList[select'.selected + 1])]_vars

\* C12: a constructor call with an empty options list throws RangeError and
\* leaves no part of a Select built; a call with a list that is not empty
\* throws no RangeError.
C12_EmptyListThrowsFirst ==
    /\ select.threw =>
          (/\ Len(select.given) = 0
           /\ select = [NoSelect EXCEPT !.threw = TRUE])
    /\ (select.made \/ select.threw) =>
          (select.threw <=> Len(select.given) = 0)

\* The constructor has thrown on an empty list.
C12_Witness == select.threw /\ ~select.made /\ select.given = <<>>

-----------------------------------------------------------------------------
(* Color: properties                                                       *)

\* The alpha parameter of a call: the one after the single definition, or
\* the one after red, green and blue; undefined when it is left out.
AlphaParameter(args) ==
    IF Len(args) = 2 THEN args[2]
    ELSE IF Len(args) = 4 THEN args[4]
    ELSE Undefined

\* C13: after new Color(definition, alpha) or set(definition, alpha), for
\* every form of definition, the alpha of the colour is alpha kept in
\* 0 .. 1; a new colour made without the alpha parameter has alpha 1.
C13_AlphaParameter ==
    /\ (color.op # "none" /\ AlphaParameter(color.args) # Undefined) =>
          (color.c.alpha = constrain(AlphaParameter(color.args).v, 0, Full))
    /\ (color.op = "new" /\ AlphaParameter(color.args) = Undefined) =>
          (color.c.alpha = Full)

-----------------------------------------------------------------------------
(* Sprite: the range of the frame, a sprite that does not loop             *)

\* C14: the frame of a sprite with at least one frame is at least 0 and
\* less than frames.length, whatever was given to setFrame, play and from.
C14_FrameInRange ==
    (sprite.made /\ Len(sprite.frames) >= 1) =>
        (sprite.frame >= 0 /\ sprite.frame < Len(sprite.frames) * FrameUnit)

\* C14 witness: a render with a negative speed took the frame from the
\* first frame back round to the last one.
C14_Witness ==
    /\ sprite.made /\ Len(sprite.frames) = Len(SheetKeys)
    /\ sprite.speed = 0 - FrameUnit
    /\ sprite.log = <<"draw", "sprite-frame">>
    /\ sprite.frame = (Len(sprite.frames) - 1) * FrameUnit

\* A render reaches a loaded, playing sprite that does not loop and has a
\* positive speed.
PlaysOnce(s) ==
    /\ s.made /\ Visible(s) /\ s.isLoaded /\ ~s.isPaused
    /\ ~s.loop /\ s.speed > 0 /\ Len(s.frames) >= 1

\* C15: a render of a loaded, playing sprite that does not loop, with a
\* positive speed, never takes the frame back, and leaves it where it is
\* once floor(frame) is the last frame.
C15_NoWrapWithoutLoop ==
    [][(SpriteTick /\ PlaysOnce(sprite)) =>
          (/\ sprite'.frame >= sprite.frame
           /\ (floor(sprite.frame) = Len(sprite.frames) - 1) =>
                  (sprite'.frame = sprite.frame))]_vars

\* C16: a loaded, playing sprite that does not loop, with two frames or
\* more and a positive speed, fires its end event in some render, and
\* fires it once only, after the frame event of that render; a sprite that
\* loops never fires it.
C16_EndFiresOnce ==
    /\ [](sprite.ends <= 1)
    /\ []((sprite.made /\ sprite.loop) => sprite.ends = 0)
    /\ [](("sprite-end" \in {sprite.log[i] : i \in 1 .. Len(sprite.log)}) =>
            (/\ floor(sprite.frame) = Len(sprite.frames) - 1
             /\ sprite.log = <<"draw", "sprite-frame", "sprite-end">>))
    /\ ((PlaysOnce(sprite) /\ Len(sprite.frames) >= 2) ~> (sprite.ends = 1))

\* The events a render fired, apart from the paint.
Fired(s) == {s.log[i] : i \in 1 .. Len(s.log)} \ {"draw"}

\* C17: the frame changes only when the sprite is made, in setFrame and in
\* the render of a loaded sprite that is not paused.  The render of a sprite
\* that is paused or not loaded leaves the frame and fires neither frame nor
\* end; pause and play leave the frame; play without a speed leaves the
\* speed.
C17_FrameChangesOnlyByStep ==
    [][/\ (sprite'.frame # sprite.frame) =>
              (\/ SpriteExtract \/ SpriteFrom \/ SpriteSetFrame
               \/ (SpriteTick /\ sprite.isLoaded /\ ~sprite.isPaused))
       /\ (SpriteTick /\ (sprite.isPaused \/ ~sprite.isLoaded)) =>
              (sprite'.frame = sprite.frame /\ Fired(sprite') = {})
       /\ (SpritePause \/ SpritePlay) => (sprite'.frame = sprite.frame)
       /\ (sprite' = Sprite_play(sprite, <<>>)) => (sprite'.speed = sprite.speed)
       /\ SpritePlay =>
              (\/ sprite'.speed = sprite.speed
               \/ sprite' = Sprite_play(sprite, <<sprite'.speed>>))]_vars

\* C17 witness: a paused, loaded sprite standing on a later frame was
\* rendered: it was painted and nothing else happened.
C17_Witness ==
    /\ sprite.made /\ sprite.isLoaded /\ sprite.isPaused
    /\ sprite.calls = 1 /\ sprite.log = <<"draw">>
    /\ sprite.frame = FrameUnit + 1


-----------------------------------------------------------------------------
(* Select.value: properties                                                *)

\* The distance between two indexes.
Distance(a, b) == IF a < b THEN b - a ELSE a - b

\* C18: whatever was assigned to value and whichever rows were clicked, the
\* selected index of a Select is between 0 and optionsList.length - 1, and
\* the last assignment was applied: the selected index is the index in that
\* range nearest to the value assigned.
C18_ValueIsClamped ==
    select.made =>
        LET last == Len(select.optionsList) - 1
        IN  /\ 0 <= select.selected /\ select.selected <= last
            /\ select.assigned # <<>> =>
                  \A index \in 0 .. last :
                      Distance(select.selected, select.assigned[1])
                          <= Distance(index, select.assigned[1])

\* C18 witness: after a row click, -1 was assigned to the value of a Select
\* of two options, and the first option is selected.
C18_Witness ==
    /\ select.made /\ Len(select.optionsList) = 2
    /\ select.changes = 1
    /\ select.assigned = <<0 - 1>>
    /\ select.selected = 0


-----------------------------------------------------------------------------
(* Text, the ready event: properties                                       *)

\* The promise chain of a Text has come to its end: there was no font to
\* load, or the last reaction has run.
Settled(t) == t.made /\ t.done # "pending"

\* What holds of the ready event whether the font load succeeds or not: it
\* is fired at most once; with a font that is not a URL it is fired inside
\* the constructor; with a URL it is fired only after the load has resolved
\* and its listeners find the generated name in options.font.
ReadyInOrder(t) ==
    /\ t.ready <= 1
    /\ (t.made /\ ~IsURL(t.given)) => t.ready = 1
    /\ (IsURL(t.given) /\ t.ready > 0) =>
          /\ t.load = "fulfilled"
          /\ t.heard = <<FontName(t.given)>>
          /\ t.font = FontName(t.given)

\* C19 as stated: every Text fires its ready event exactly once, inside the
\* constructor when its font is not a URL and after the font load has
\* resolved, with the generated name in options.font, when it is one.
C19_AsStated ==
    \A id \in TextIds :
        /\ ReadyInOrder(texts[id])
        /\ Settled(texts[id]) => texts[id].ready = 1

\* C19 amended: a Text fires its ready event at most once: inside the
\* constructor when its font is not a URL; when it is a URL, once the font
\* load has resolved and the reactions have run, never before, with the
\* generated name in options.font; a Text whose font load is rejected never
\* fires it.
C19_ReadyOnceOnSuccess ==
    \A id \in TextIds :
        /\ ReadyInOrder(texts[id])
        /\ (Settled(texts[id]) /\ texts[id].load # "rejected") => texts[id].ready = 1
        /\ texts[id].load = "rejected" => texts[id].ready = 0

\* C19 witness: one Text with a URL font has fired ready after its load
\* resolved, and another, with a system font, fired it when constructed.
C19_Witness ==
    \E a, b \in TextIds :
        /\ texts[a].given = "//cdn/a.woff" /\ texts[a].done = "fulfilled"
        /\ texts[a].heard = <<"--cdn-a-woff">>
        /\ texts[b].given = "serif" /\ texts[b].heard = <<"serif">>


-----------------------------------------------------------------------------
(* Rectangle.getOrigin: properties                                         *)

\* The offset the named origin stands for, twice over, so that the centre
\* needs no division: for a rectangle of width w and height h.
TwiceNamedOffset(name, w, h) ==
    CASE name = "topRight"    -> <<0 - 2 * w, 0>>
      [] name = "bottomLeft"  -> <<0, 0 - 2 * h>>
      [] name = "bottomRight" -> <<0 - 2 * w, 0 - 2 * h>>
      [] name = "center"      -> <<0 - w, 0 - h>>
      [] OTHER                -> <<0, 0>>

\* C20: getOrigin of a rectangle of width w and height h gives (0, 0) for
\* topLeft, (-w, 0) for topRight, (0, -h) for bottomLeft, (-w, -h) for
\* bottomRight, (-w/2, -h/2) for center and (0, 0) for any other string;
\* with an origin that is not a string it gives what Component.getOrigin
\* gives.
C20_NamedOrigins ==
    rectangle.call # <<>> =>
        LET r == rectangle.call[1].on
            position == rectangle.call[1].position
        IN  IF r.origin.t = "string"
            THEN <<2 * position.x, 2 * position.y>>
                     = TwiceNamedOffset(r.origin.v, r.width, r.height)
            ELSE position = Component_getOrigin(r)

\* C20 witness: getOrigin was called on a rectangle of width 2 and height 1
\* with the origin bottomRight and gave (-2, -1), after the origin had been
\* set to something else.
C20_Witness ==
    /\ rectangle.call # <<>>
    /\ rectangle.call[1].on =
          [made |-> TRUE, width |-> 2 * Halves, height |-> Halves,
           origin |-> Str("bottomRight")]
    /\ rectangle.call[1].position = Pos(0 - 2 * Halves, 0 - Halves)
    /\ rectangle.r.origin = Pos(Halves, 0 - Halves)

=============================================================================
